---------------------------- MODULE Spec2Model ----------------------------
(**************************************************************************)
(* Model of Linkedin-script.py: a Flask service that drives one Selenium  *)
(* browser session to harvest hashtag posts (/scrape) and to post a       *)
(* comment (/comment).  Requests are handled one at a time                *)
(* (app.run(..., threaded=False)); the browser and the page it shows are  *)
(* the environment and are chosen nondeterministically at every read.     *)
(**************************************************************************)
EXTENDS Integers, Sequences, FiniteSets, TLC

(* ------------------------------ bounds -------------------------------- *)
\* requests the environment sends in one process lifetime
MaxRequests == 3
\* largest post identifier the small pages draw from (0 is the empty one)
MaxUrn == 2
\* containers on one small page
MaxCards == 2
\* size of the page of the "many posts in the first pass" scenario
ScenarioPosts == 7
\* range of integer max_posts values of the cap specification
MaxInt == 27
\* length of the strings supplied as max_posts
MaxStrLen == 3
\* range, in tenths, of the fractional max_posts values
MaxTenths == 30
\* length of the comment texts
MaxText == 2
\* length of the hashtag strings of the hashtag specification
MaxTagLen == 4

(* --------------------------- Python values ----------------------------- *)
\* Python's None, for the variables that hold None or a string
None == "<None>"
\* the module-level `driver = None`; a launched browser is numbered from 1
NoDriver == 0
\* get_attribute("data-urn") of a container whose attribute is empty
NoUrn == 0
\* chosen_xpath = None
NoXpath == 0

Min(a, b) == IF a < b THEN a ELSE b
Max(a, b) == IF a > b THEN a ELSE b

\* Python truthiness of an os.getenv result
Truthy(s) == s # None /\ s # ""

VARIABLES
    token,        \* LINKEDIN_SESSION_ID
    driver,       \* global driver
    wait,         \* global wait (the driver it is bound to)
    authState,    \* terminal state of the last state detection
    attempts,     \* calls of webdriver.Chrome
    launches,     \* browsers created
    injections,   \* add_cookie calls
    detections,   \* state detections started
    nreq,         \* requests received so far
    route,        \* handler running
    pc,           \* its position
    ready,        \* result of initialize_browser in this request
    data,         \* max_posts of the request body
    cap,          \* max_posts after int() and the clamp
    chosen,       \* chosen_xpath (index into POST_CONTAINER_XPATHS)
    cards,        \* identifiers of the last find_elements(chosen_xpath)
    posts,        \* posts
    seen,         \* seen
    firstSeen,    \* the distinct identifiers enumerated so far, in order
    dumpCalls,    \* dump_debug calls of this request
    dumpFiles,    \* dumps written in this request
    response,     \* response of the last request
    commentData,  \* JSON body read by comment (its `data`)
    typed,        \* characters of the comment sent to the input so far
    hashtag,      \* hashtag of the request body and its normalized form
    signals,      \* what the three wait_for_any calls of the detection found
    running       \* handlers the server is running

vars == <<token, driver, wait, authState, attempts, launches, injections,
          detections, nreq, route, pc, ready, data, cap, chosen, cards, posts,
          seen, firstSeen, dumpCalls, dumpFiles, response, commentData, typed,
          hashtag, signals, running>>

session == <<driver, wait, authState, attempts, launches, injections, detections>>
harvest == <<chosen, cards, posts, seen, firstSeen>>

(* ------------------- max_posts: int() and the clamp -------------------- *)
\* `data.get("max_posts", 5)`, `except: max_posts = 5`
DefaultMaxPosts == 5
\* `max(1, min(max_posts, 25))`
MinPosts == 1
HardLimit == 25

Digits == <<"0", "1", "2", "3", "4", "5", "6", "7", "8", "9">>
IsDigit(c) == \E i \in 1..10 : Digits[i] = c
DigitVal(c) == (CHOOSE i \in 1..10 : Digits[i] = c) - 1
IsSpace(c) == c = " "

RECURSIVE LStrip(_)
LStrip(s) == IF s # <<>> /\ IsSpace(Head(s)) THEN LStrip(Tail(s)) ELSE s

RECURSIVE RStrip(_)
RStrip(s) ==
    IF s # <<>> /\ IsSpace(s[Len(s)]) THEN RStrip(SubSeq(s, 1, Len(s) - 1)) ELSE s

\* str.strip()
Strip(s) == RStrip(LStrip(s))

RECURSIVE DigitsValue(_, _)
DigitsValue(s, acc) ==
    IF s = <<>> THEN acc ELSE DigitsValue(Tail(s), 10 * acc + DigitVal(Head(s)))

\* int(str): surrounding whitespace, an optional sign, then decimal digits;
\* anything else raises ValueError
PyIntOfStr(s) ==
    LET t == Strip(s)
        signed == t # <<>> /\ Head(t) \in {"+", "-"}
        body == IF signed THEN Tail(t) ELSE t
    IN  IF body # <<>> /\ \A i \in 1..Len(body) : IsDigit(body[i])
        THEN [ok |-> TRUE,
              v |-> IF signed /\ Head(t) = "-" THEN 0 - DigitsValue(body, 0)
                    ELSE DigitsValue(body, 0)]
        ELSE [ok |-> FALSE, v |-> 0]

\* int(float): truncation toward zero (the float is given in tenths)
TruncTenths(k) == IF k >= 0 THEN k \div 10 ELSE 0 - ((0 - k) \div 10)

\* int(x) for the JSON values of max_posts; ok = FALSE is an exception
\* (ValueError, TypeError, OverflowError)
PyInt(d) ==
    CASE d.t = "int" -> [ok |-> TRUE, v |-> d.v]
      [] d.t = "float" -> [ok |-> TRUE, v |-> TruncTenths(d.tenths)]
      [] d.t = "bool" -> [ok |-> TRUE, v |-> IF d.b THEN 1 ELSE 0]
      [] d.t = "str" -> PyIntOfStr(d.s)
      [] OTHER -> [ok |-> FALSE, v |-> 0]

\* data.get("max_posts", 5)
GetMaxPosts(d) == IF d.t = "absent" THEN [t |-> "int", v |-> DefaultMaxPosts] ELSE d

\* try: int(...) except: 5
ParsedMaxPosts(d) ==
    LET r == PyInt(GetMaxPosts(d)) IN IF r.ok THEN r.v ELSE DefaultMaxPosts

\* variant: the lower limit left out
HardSafetyLimit_NoFloor(n) == Min(n, HardLimit)
\* max(1, min(max_posts, 25))
HardSafetyLimit(n) == Max(MinPosts, Min(n, HardLimit))

\* the max_posts handed to scrape_hashtag
EffectiveCap(d) == HardSafetyLimit(ParsedMaxPosts(d))

(* ------------------------------- hashtag -------------------------------- *)
\* the default of data.get("hashtag", "hiring")
DefaultHashtag == <<"h", "i", "r", "i", "n", "g">>

\* str.lstrip("#")
RECURSIVE LStripMarker(_)
LStripMarker(s) == IF s # <<>> /\ Head(s) = "#" THEN LStripMarker(Tail(s)) ELSE s

\* data.get("hashtag", "hiring")
GetHashtag(h) == IF h.t = "absent" THEN DefaultHashtag ELSE h.s

\* str(data.get("hashtag", "hiring")).lstrip("#").strip()
NormalizeHashtag(h) == Strip(LStripMarker(GetHashtag(h)))

(* ----------------------------- diagnostics ----------------------------- *)
\* dump_debug(tag): the call, and the files it writes (none without a driver)
DumpCalled(log, tag) == Append(log, tag)
\* variant: no `if not driver: return`
DumpWritten_Always(files, tag, drv) == Append(files, tag)
DumpWritten(files, tag, drv) == IF drv = NoDriver THEN files ELSE Append(files, tag)

(* ------------------------------ the page ------------------------------- *)
\* POST_CONTAINER_XPATHS
NumContainerXpaths == 3
ContainerXpaths == 1..NumContainerXpaths

Urns == NoUrn..MaxUrn

RECURSIVE SeqsUpTo(_, _)
SeqsUpTo(S, n) ==
    IF n = 0 THEN {<<>>}
    ELSE LET shorter == SeqsUpTo(S, n - 1)
         IN  shorter \cup {Append(q, x) : q \in {r \in shorter : Len(r) = n - 1}, x \in S}

\* a page on which ScenarioPosts distinct posts are rendered at once
ScenarioCards == [i \in 1..ScenarioPosts |-> i]

\* what find_elements(chosen_xpath) can return: the data-urn of each
\* matching container, in document order
CardLists == SeqsUpTo(Urns, MaxCards) \cup {ScenarioCards}

\* next((xp for xp in POST_CONTAINER_XPATHS if find_elements(xp)), None),
\* where `matching` is the set of candidates that match the page
FirstMatching(matching) ==
    IF matching = {} THEN NoXpath
    ELSE CHOOSE k \in matching : \A j \in matching : k <= j

(* ----------------------------- the harvest ----------------------------- *)
\* f"https://www.linkedin.com/feed/update/{urn}/"
Url(urn) == <<"https://www.linkedin.com/feed/update/", urn, "/">>

\* the post appended for a container (author and text are not modelled)
Post(urn) == [url |-> Url(urn)]

\* variant: the `urn in seen` test left out
Skip_NoSeenCheck(urn, sn) == urn = NoUrn
\* `if not urn or urn in seen: continue`
Skip(urn, sn) == urn = NoUrn \/ urn \in sn

\* variant: the post inserted at the front
AddPost_Front(ps, p) == <<p>> \o ps
\* posts.append(...)
AddPost(ps, p) == Append(ps, p)

\* the `for card in find_elements(chosen_xpath)` loop from card i on, with
\* its `break` once len(posts) >= max_posts
RECURSIVE ForCards(_, _, _, _, _)
ForCards(cs, i, ps, sn, mx) ==
    IF i > Len(cs) THEN [posts |-> ps, seen |-> sn]
    ELSE IF Skip(cs[i], sn) THEN ForCards(cs, i + 1, ps, sn, mx)
    ELSE LET ps2 == AddPost(ps, Post(cs[i]))
             sn2 == sn \cup {cs[i]}
         IN  IF Len(ps2) >= mx THEN [posts |-> ps2, seen |-> sn2]
             ELSE ForCards(cs, i + 1, ps2, sn2, mx)

\* variant: a slice one short
Truncated_Short(ps, mx) == SubSeq(ps, 1, Min(Len(ps), mx - 1))
\* posts[:max_posts]
Truncated(ps, mx) == SubSeq(ps, 1, Min(Len(ps), mx))

\* variant: the loop gives up as soon as a pass has found something
LoopAgain_UntilAny(ps, mx) == Len(ps) = 0
\* `while len(posts) < max_posts`
LoopAgain(ps, mx) == Len(ps) < mx

\* the identifiers of s in the order of their first occurrence
FirstOccurrences(s) ==
    LET keep == {i \in 1..Len(s) : s[i] # NoUrn /\ \A j \in 1..(i - 1) : s[j] # s[i]}
        nth(k) == CHOOSE i \in keep : Cardinality({j \in keep : j < i}) = k - 1
    IN  [k \in 1..Cardinality(keep) |-> s[nth(k)]]

(* ------------------------- initialize_browser -------------------------- *)
\* variant: no short-circuit on an existing driver
AlreadyInitialized_Never(drv) == FALSE
\* `if driver: return True`
AlreadyInitialized(drv) == drv # NoDriver

\* variant: no test of the session id
TokenMissing_Never(tok) == FALSE
\* `if not LINKEDIN_SESSION_ID: return False`
TokenMissing(tok) == ~Truthy(tok)

\* variant: the login page looked for before the checkpoint
TerminalState_LoginFirst(ok, cp, lp) ==
    IF ok THEN "Authenticated"
    ELSE IF lp THEN "LoginPageDetected"
    ELSE IF cp THEN "CheckpointChallenge"
    ELSE "UnknownState"

\* the order of the three wait_for_any calls: LOGIN_OK, CHECKPOINT, LOGIN_PAGE
TerminalState(ok, cp, lp) ==
    IF ok THEN "Authenticated"
    ELSE IF cp THEN "CheckpointChallenge"
    ELSE IF lp THEN "LoginPageDetected"
    ELSE "UnknownState"

\* the tag dumped for a terminal state that is not Authenticated
DumpTag(st) ==
    CASE st = "CheckpointChallenge" -> "checkpoint"
      [] st = "LoginPageDetected" -> "login_page"
      [] OTHER -> "unknown_state"

FailedStates == {"CheckpointChallenge", "LoginPageDetected", "UnknownState"}

\* where an exception can be raised once the browser exists
RaiseStages == {"root", "cookie", "feed", "detect"}

NoData == [t |-> "none"]
NoBody == [t |-> "none"]
NoTag == [raw |-> [t |-> "none"], norm |-> <<>>]
NoSignals == [t |-> "none"]
NoResponse == [status |-> 0, kind |-> "none", posts |-> <<>>]

\* hashtag values of the requests of the service specification
HashtagInputs == {[t |-> "absent"], [t |-> "str", s |-> <<" ", "#", "a">>]}

\* max_posts values of the requests of the service specification
MaxPostsInputs ==
    {[t |-> "absent"], [t |-> "int", v |-> 0], [t |-> "int", v |-> 2],
     [t |-> "int", v |-> 100], [t |-> "float", tenths |-> 27],
     [t |-> "str", s |-> <<"a">>], [t |-> "bool", b |-> TRUE]}

Init ==
    /\ token \in {None, "", "AQEDAR"}
    /\ driver = NoDriver
    /\ wait = NoDriver
    /\ authState = "Uninitialized"
    /\ attempts = 0
    /\ launches = 0
    /\ injections = 0
    /\ detections = 0
    /\ nreq = 0
    /\ route = "none"
    /\ pc = "idle"
    /\ ready = FALSE
    /\ data = NoData
    /\ cap = 0
    /\ chosen = NoXpath
    /\ cards = <<>>
    /\ posts = <<>>
    /\ seen = {}
    /\ firstSeen = <<>>
    /\ dumpCalls = <<>>
    /\ dumpFiles = <<>>
    /\ response = NoResponse
    /\ commentData = NoBody
    /\ typed = 0
    /\ hashtag = NoTag
    /\ signals = NoSignals
    /\ running = 0

\* variant: app.run(..., threaded=True)
Threaded_On == TRUE
\* app.run(..., threaded=False)
Threaded == FALSE

\* the development server takes a POST /scrape or POST /comment off the socket
\* and calls its handler: at any time when it serves each request in a thread
\* of its own, otherwise only when no handler is running
Request(r) ==
    /\ Threaded \/ running = 0
    /\ nreq < MaxRequests
    /\ nreq' = nreq + 1
    /\ route' = r
    /\ pc' = "init"
    /\ ready' = FALSE
    /\ dumpCalls' = <<>>
    /\ dumpFiles' = <<>>
    /\ response' = NoResponse
    /\ running' = running + 1
    /\ UNCHANGED <<commentData, typed, hashtag, signals>>
    /\ UNCHANGED <<token, session, data, cap, harvest>>

\* initialize_browser: the driver exists already
InitAlready ==
    /\ pc = "init"
    /\ AlreadyInitialized(driver)
    /\ ready' = TRUE
    /\ pc' = "initdone"
    /\ UNCHANGED <<commentData, typed, hashtag, signals, running>>
    /\ UNCHANGED <<token, session, nreq, route, data, cap, harvest, dumpCalls,
                   dumpFiles, response>>

\* initialize_browser: no session id configured
InitNoToken ==
    /\ pc = "init"
    /\ ~AlreadyInitialized(driver)
    /\ TokenMissing(token)
    /\ ready' = FALSE
    /\ pc' = "initdone"
    /\ UNCHANGED <<commentData, typed, hashtag, signals, running>>
    /\ UNCHANGED <<token, session, nreq, route, data, cap, harvest, dumpCalls,
                   dumpFiles, response>>

\* initialize_browser: webdriver.Chrome(...) raises; the except clause calls
\* dump_debug("init_failed") while driver is still None
InitLaunchFails ==
    /\ pc = "init"
    /\ ~AlreadyInitialized(driver)
    /\ ~TokenMissing(token)
    /\ attempts' = attempts + 1
    /\ dumpCalls' = DumpCalled(dumpCalls, "init_failed")
    /\ dumpFiles' = DumpWritten(dumpFiles, "init_failed", driver)
    /\ ready' = FALSE
    /\ pc' = "initdone"
    /\ UNCHANGED <<commentData, typed, hashtag, signals, running>>
    /\ UNCHANGED <<token, driver, wait, authState, launches, injections,
                   detections, nreq, route, data, cap, harvest, response>>

\* initialize_browser: the browser is created, then driver.get, add_cookie
\* or the state detection raises
InitRaises(stage) ==
    /\ pc = "init"
    /\ ~AlreadyInitialized(driver)
    /\ ~TokenMissing(token)
    /\ attempts' = attempts + 1
    /\ launches' = launches + 1
    /\ driver' = launches + 1
    /\ wait' = launches + 1
    /\ injections' = IF stage \in {"feed", "detect"} THEN injections + 1 ELSE injections
    /\ detections' = IF stage = "detect" THEN detections + 1 ELSE detections
    /\ dumpCalls' = DumpCalled(dumpCalls, "init_failed")
    /\ dumpFiles' = DumpWritten(dumpFiles, "init_failed", driver')
    /\ ready' = FALSE
    /\ pc' = "initdone"
    /\ UNCHANGED <<commentData, typed, hashtag, signals, running>>
    /\ UNCHANGED <<token, authState, nreq, route, data, cap, harvest, response>>

\* initialize_browser: launch, cookie injection and state detection run to
\* the end; ok, cp and lp say whether wait_for_any finds a LOGIN_OK, a
\* CHECKPOINT, a LOGIN_PAGE element within its timeout
InitDetects(ok, cp, lp) ==
    LET st == TerminalState(ok, cp, lp) IN
    /\ pc = "init"
    /\ ~AlreadyInitialized(driver)
    /\ ~TokenMissing(token)
    /\ attempts' = attempts + 1
    /\ launches' = launches + 1
    /\ driver' = launches + 1
    /\ wait' = launches + 1
    /\ injections' = injections + 1
    /\ detections' = detections + 1
    /\ authState' = st
    /\ ready' = (st = "Authenticated")
    /\ dumpCalls' = IF st = "Authenticated" THEN dumpCalls
                    ELSE DumpCalled(dumpCalls, DumpTag(st))
    /\ dumpFiles' = IF st = "Authenticated" THEN dumpFiles
                    ELSE DumpWritten(dumpFiles, DumpTag(st), driver')
    /\ signals' = [t |-> "detect", ok |-> ok, cp |-> cp, lp |-> lp]
    /\ pc' = "initdone"
    /\ UNCHANGED <<commentData, typed, hashtag, running>>
    /\ UNCHANGED <<token, nreq, route, data, cap, harvest, response>>

\* what a handler leaves behind when it returns
Return(resp) ==
    /\ response' = resp
    /\ pc' = "idle"
    /\ route' = "none"
    /\ ready' = FALSE
    /\ data' = NoData
    /\ cap' = 0
    /\ chosen' = NoXpath
    /\ cards' = <<>>
    /\ posts' = <<>>
    /\ seen' = {}
    /\ firstSeen' = <<>>
    /\ commentData' = NoBody
    /\ typed' = 0
    /\ hashtag' = NoTag
    /\ signals' = NoSignals
    /\ running' = running - 1

\* scrape, comment: `if not initialize_browser(): return ..., 500`
InitFailed ==
    /\ pc = "initdone"
    /\ ~ready
    /\ Return([status |-> 500, kind |-> "browser init failed", posts |-> <<>>])
    /\ UNCHANGED <<token, session, nreq, dumpCalls, dumpFiles>>

(* ------------------------------- /scrape -------------------------------- *)
\* scrape: request.get_json(), the hashtag, int(data.get("max_posts", 5)),
\* the clamp
ScrapeParse ==
    /\ pc = "initdone"
    /\ ready
    /\ route = "scrape"
    /\ \E h \in HashtagInputs :
          hashtag' = [raw |-> h, norm |-> NormalizeHashtag(h)]
    /\ \E d \in MaxPostsInputs :
          /\ data' = d
          /\ cap' = EffectiveCap(d)
    /\ pc' = "navigate"
    /\ UNCHANGED <<commentData, typed, signals, running>>
    /\ UNCHANGED <<token, session, nreq, route, ready, harvest, dumpCalls,
                   dumpFiles, response>>

\* variant: the no-match return without its dump_debug call
HarvestNoPosts_NoDump ==
    /\ pc = "navigate"
    /\ \E matching \in SUBSET ContainerXpaths : FirstMatching(matching) = NoXpath
    /\ Return([status |-> 404, kind |-> "no posts found", posts |-> <<>>])
    /\ UNCHANGED <<token, session, nreq, dumpCalls, dumpFiles>>

\* scrape_hashtag: driver.get, human_scroll(2), no container xpath matches:
\* dump_debug("no_posts"), return [], and scrape answers 404
HarvestNoPosts ==
    /\ pc = "navigate"
    /\ \E matching \in SUBSET ContainerXpaths : FirstMatching(matching) = NoXpath
    /\ dumpCalls' = DumpCalled(dumpCalls, "no_posts")
    /\ dumpFiles' = DumpWritten(dumpFiles, "no_posts", driver)
    /\ Return([status |-> 404, kind |-> "no posts found", posts |-> <<>>])
    /\ UNCHANGED <<token, session, nreq>>

\* scrape_hashtag: driver.get, human_scroll(2), the first matching container
\* xpath becomes chosen_xpath; posts, seen = [], set()
HarvestChoose ==
    /\ pc = "navigate"
    /\ \E matching \in SUBSET ContainerXpaths :
          /\ FirstMatching(matching) # NoXpath
          /\ chosen' = FirstMatching(matching)
    /\ posts' = <<>>
    /\ seen' = {}
    /\ firstSeen' = <<>>
    /\ cards' = <<>>
    /\ pc' = "enum"
    /\ UNCHANGED <<commentData, typed, hashtag, signals, running>>
    /\ UNCHANGED <<token, session, nreq, route, ready, data, cap, dumpCalls,
                   dumpFiles, response>>

\* scrape_hashtag: one pass of the for loop over find_elements(chosen_xpath)
HarvestEnumerate ==
    /\ pc = "enum"
    /\ \E cs \in CardLists :
          LET r == ForCards(cs, 1, posts, seen, cap) IN
          /\ cards' = cs
          /\ posts' = r.posts
          /\ seen' = r.seen
          /\ firstSeen' = FirstOccurrences(firstSeen \o cs)
    /\ pc' = "scroll"
    /\ UNCHANGED <<commentData, typed, hashtag, signals, running>>
    /\ UNCHANGED <<token, session, nreq, route, ready, data, cap, chosen,
                   dumpCalls, dumpFiles, response>>

\* scrape_hashtag: human_scroll(1) at the end of the while body, then the
\* while test
HarvestScroll ==
    /\ pc = "scroll"
    /\ cards' = <<>>
    /\ pc' = IF LoopAgain(posts, cap) THEN "enum" ELSE "return"
    /\ UNCHANGED <<commentData, typed, hashtag, signals, running>>
    /\ UNCHANGED <<token, session, nreq, route, ready, data, cap, chosen, posts,
                   seen, firstSeen, dumpCalls, dumpFiles, response>>

\* scrape_hashtag: return posts[:max_posts]; scrape: 404 if empty, else 200
ScrapeRespond ==
    /\ pc = "return"
    /\ LET results == Truncated(posts, cap) IN
          IF results = <<>>
          THEN Return([status |-> 404, kind |-> "no posts found", posts |-> <<>>])
          ELSE Return([status |-> 200, kind |-> "posts", posts |-> results])
    /\ UNCHANGED <<token, session, nreq, dumpCalls, dumpFiles>>

(* ------------------------------- /comment ------------------------------- *)
CommentStages == <<"trigger", "input", "submit", "clicked">>
StageIndex(p) == CHOOSE i \in 1..Len(CommentStages) : CommentStages[i] = p

WaitStages == {"trigger", "input", "submit"}

\* the comment field is absent from the body
NoText == 0 - 1

\* what request.get_json() gives comment: JSON null, or an object with or
\* without post_url and with a comment of some length or without one
CommentBodies ==
    {[t |-> "null"]}
    \cup {[t |-> "object", url |-> u, text |-> n] :
              u \in BOOLEAN, n \in NoText..MaxText}

\* data["post_url"] raises: TypeError on None, KeyError without the field
NoPostUrl(b) == IF b.t = "null" THEN TRUE ELSE ~b.url

\* the answer to a request whose handler let an exception escape: Flask's
\* error page (with debug=True, the debugger's traceback page)
Unhandled == [status |-> 500, kind |-> "exception", posts |-> <<>>]

\* comment: data = request.get_json(); driver.get(data["post_url"]); sleep
CommentNavigate ==
    /\ pc = "initdone"
    /\ ready
    /\ route = "comment"
    /\ \E b \in CommentBodies :
          /\ ~NoPostUrl(b)
          /\ commentData' = b
    /\ pc' = "trigger"
    /\ UNCHANGED <<typed, hashtag, signals, running>>
    /\ UNCHANGED <<token, session, nreq, route, ready, data, cap, harvest,
                   dumpCalls, dumpFiles, response>>

\* comment: data["post_url"] raises, outside the try block
CommentBadBody ==
    /\ pc = "initdone"
    /\ ready
    /\ route = "comment"
    /\ \E b \in CommentBodies : NoPostUrl(b)
    /\ Return(Unhandled)
    /\ UNCHANGED <<token, session, nreq, dumpCalls, dumpFiles>>

\* comment: a wait.until succeeds and what follows it is done: the click on
\* the comment button; the read of data["comment"]; the click on the submit
\* button once every character has been sent
CommentAdvance ==
    /\ pc \in WaitStages
    /\ pc = "input" => commentData.text # NoText
    /\ pc = "submit" => typed = commentData.text
    /\ pc' = CommentStages[StageIndex(pc) + 1]
    /\ UNCHANGED <<commentData, typed, hashtag, signals, running>>
    /\ UNCHANGED <<token, session, nreq, route, ready, data, cap, harvest,
                   dumpCalls, dumpFiles, response>>

\* comment: box.send_keys(ch) for the next character, then the pause
CommentType ==
    /\ pc = "submit"
    /\ typed < commentData.text
    /\ typed' = typed + 1
    /\ UNCHANGED <<commentData, hashtag, signals, running>>
    /\ UNCHANGED <<token, session, nreq, route, pc, ready, data, cap, harvest,
                   dumpCalls, dumpFiles, response>>

\* variant: the except clause without its dump_debug call
CommentTimeout_NoDump ==
    /\ pc \in WaitStages
    /\ pc = "submit" => typed = commentData.text
    /\ Return([status |-> 500, kind |-> "failed", posts |-> <<>>])
    /\ UNCHANGED <<token, session, nreq, dumpCalls, dumpFiles>>

\* comment: a wait.until raises TimeoutException; the except clause dumps
\* and answers 500
CommentTimeout ==
    /\ pc \in WaitStages
    /\ pc = "submit" => typed = commentData.text
    /\ dumpCalls' = DumpCalled(dumpCalls, "comment_failed")
    /\ dumpFiles' = DumpWritten(dumpFiles, "comment_failed", driver)
    /\ Return([status |-> 500, kind |-> "failed", posts |-> <<>>])
    /\ UNCHANGED <<token, session, nreq>>

\* comment: inside the try block something other than TimeoutException is
\* raised (a click or send_keys fails, data["comment"] is missing); no except
\* clause catches it
CommentRaises ==
    /\ pc \in WaitStages
    /\ Return(Unhandled)
    /\ UNCHANGED <<token, session, nreq, dumpCalls, dumpFiles>>

\* comment: return {"status": "success"}, 200
CommentSuccess ==
    /\ pc = "clicked"
    /\ Return([status |-> 200, kind |-> "success", posts |-> <<>>])
    /\ UNCHANGED <<token, session, nreq, dumpCalls, dumpFiles>>

(* ---------------------------- specifications ---------------------------- *)
\* the steps of the handler that is running
Step ==
    \/ InitAlready
    \/ InitNoToken
    \/ InitLaunchFails
    \/ \E stage \in RaiseStages : InitRaises(stage)
    \/ \E ok \in BOOLEAN, cp \in BOOLEAN, lp \in BOOLEAN : InitDetects(ok, cp, lp)
    \/ InitFailed
    \/ ScrapeParse
    \/ HarvestNoPosts
    \/ HarvestChoose
    \/ HarvestEnumerate
    \/ HarvestScroll
    \/ ScrapeRespond
    \/ CommentNavigate
    \/ CommentBadBody
    \/ CommentAdvance
    \/ CommentType
    \/ CommentTimeout
    \/ CommentRaises
    \/ CommentSuccess

Next ==
    \/ \E r \in {"scrape", "comment"} : Request(r)
    \/ Step

Spec == Init /\ [][Next]_vars

\* a handler that has been entered keeps running: every wait, sleep and
\* poll of the code is bounded, so the single serving thread takes its next step
FairSpec == Spec /\ WF_vars(Step)

(* --------- the cap of /scrape as a function of max_posts alone ---------- *)
Chars == {"1", "7", ".", "-", " ", "a"}

CapInputs ==
    {[t |-> "int", v |-> n] : n \in ((0 - 3)..MaxInt) \cup {100}}
    \cup {[t |-> "float", tenths |-> k] :
              k \in ((0 - MaxTenths)..MaxTenths) \cup {10 * HardLimit + 5, 1005}}
    \cup {[t |-> "str", s |-> q] : q \in SeqsUpTo(Chars, MaxStrLen)}
    \cup {[t |-> "bool", b |-> x] : x \in BOOLEAN}
    \cup {[t |-> y] : y \in {"absent", "null", "list", "object", "nan", "inf"}}

InitCap ==
    /\ token = "AQEDAR"
    /\ driver = 1
    /\ wait = 1
    /\ authState = "Authenticated"
    /\ attempts = 1
    /\ launches = 1
    /\ injections = 1
    /\ detections = 1
    /\ nreq = 1
    /\ route = "scrape"
    /\ pc = "initdone"
    /\ ready = TRUE
    /\ data \in CapInputs
    /\ cap = 0
    /\ chosen = NoXpath
    /\ cards = <<>>
    /\ posts = <<>>
    /\ seen = {}
    /\ firstSeen = <<>>
    /\ dumpCalls = <<>>
    /\ dumpFiles = <<>>
    /\ response = NoResponse
    /\ commentData = NoBody
    /\ typed = 0
    /\ hashtag = NoTag
    /\ signals = NoSignals
    /\ running = 1

\* scrape: int(data.get("max_posts", 5)) and the clamp, for the body read
ParseMaxPosts ==
    /\ pc = "initdone"
    /\ ready
    /\ route = "scrape"
    /\ cap' = EffectiveCap(data)
    /\ pc' = "navigate"
    /\ UNCHANGED <<commentData, typed, hashtag, signals, running>>
    /\ UNCHANGED <<token, session, nreq, route, ready, data, harvest, dumpCalls,
                   dumpFiles, response>>

NextCap == ParseMaxPosts

SpecCap == InitCap /\ [][NextCap]_vars

(* ------ the hashtag of /scrape as a function of the body's hashtag ------ *)
TagChars == {"#", " ", "a"}

TagInputs ==
    {[t |-> "absent"]} \cup {[t |-> "str", s |-> q] : q \in SeqsUpTo(TagChars, MaxTagLen)}

InitTag ==
    /\ token = "AQEDAR"
    /\ driver = 1
    /\ wait = 1
    /\ authState = "Authenticated"
    /\ attempts = 1
    /\ launches = 1
    /\ injections = 1
    /\ detections = 1
    /\ nreq = 1
    /\ route = "scrape"
    /\ pc = "initdone"
    /\ ready = TRUE
    /\ data = NoData
    /\ cap = 0
    /\ chosen = NoXpath
    /\ cards = <<>>
    /\ posts = <<>>
    /\ seen = {}
    /\ firstSeen = <<>>
    /\ dumpCalls = <<>>
    /\ dumpFiles = <<>>
    /\ response = NoResponse
    /\ commentData = NoBody
    /\ typed = 0
    /\ hashtag \in {[raw |-> h, norm |-> <<>>] : h \in TagInputs}
    /\ signals = NoSignals
    /\ running = 1

\* scrape: the hashtag line, for the body read
ParseHashtag ==
    /\ pc = "initdone"
    /\ ready
    /\ route = "scrape"
    /\ hashtag' = [raw |-> hashtag.raw, norm |-> NormalizeHashtag(hashtag.raw)]
    /\ pc' = "parse"
    /\ UNCHANGED <<commentData, typed, signals, running>>
    /\ UNCHANGED <<token, session, nreq, route, ready, data, cap, harvest,
                   dumpCalls, dumpFiles, response>>

NextTag == ParseHashtag

SpecTag == InitTag /\ [][NextTag]_vars

(* ================================ claims ================================ *)
InHarvest == pc \in {"navigate", "enum", "scroll", "return"}
InComment == pc \in {"trigger", "input", "submit", "clicked"}

\* C1: initialize_browser returns True only on an Authenticated session, and
\* no handler reaches the harvest or the comment sequence on a session whose
\* state detection ended otherwise.
C1_ReadyOnlyIfAuthenticated ==
    /\ (pc = "initdone" /\ ready) => authState = "Authenticated"
    /\ (InHarvest \/ InComment) => authState = "Authenticated"

\* C2: the initialize_browser call that follows one ended in
\* CheckpointChallenge, LoginPageDetected or UnknownState launches a browser,
\* injects the cookie and runs the state detection again.
C2_FailedSessionRelaunches ==
    [][(pc = "init" /\ authState \in FailedStates /\ pc' = "initdone")
          => (/\ launches' = launches + 1
              /\ injections' = injections + 1
              /\ detections' = detections + 1)]_vars

\* C3: once a call has reached Authenticated, every later initialize_browser
\* call returns True and launches nothing, injects nothing and detects
\* nothing: one browser has been launched and it stays the driver.
C3_AuthenticatedIsIdempotent ==
    [][(pc = "init" /\ authState = "Authenticated" /\ pc' = "initdone")
          => (/\ ready'
              /\ launches = 1
              /\ launches' = launches
              /\ attempts' = attempts
              /\ injections' = injections
              /\ detections' = detections
              /\ driver' = driver
              /\ authState' = authState)]_vars

\* a later call has returned True on the session the first call authenticated
C3_Witness ==
    /\ pc = "initdone"
    /\ ready
    /\ nreq >= 2
    /\ attempts = 1
    /\ authState = "Authenticated"

\* C4: without a session id every request, /scrape or /comment, ends with
\* 500 "browser init failed"; webdriver.Chrome is never called and neither
\* the harvest nor the comment sequence is entered.
C4_NoTokenAlwaysInitFailed ==
    (token = None \/ token = "") =>
        /\ attempts = 0
        /\ launches = 0
        /\ driver = NoDriver
        /\ ~InHarvest
        /\ ~InComment
        /\ (pc = "initdone" => ~ready)
        /\ (pc = "idle" /\ nreq > 0) =>
              (response.status = 500 /\ response.kind = "browser init failed")

\* two requests have been answered without a session id
C4_Witness ==
    /\ token = None
    /\ nreq >= 2
    /\ pc = "idle"
    /\ response.status = 500
    /\ response.kind = "browser init failed"

Distinct(ps) == \A i, j \in 1..Len(ps) : i # j => ps[i].url # ps[j].url

\* C5: the posts accumulated by scrape_hashtag never hold an identifier
\* twice, and the sequence it returns has pairwise distinct identifiers and at
\* most max_posts entries.
C5_DistinctAndCapped ==
    /\ InHarvest => (Distinct(posts) /\ Len(posts) <= cap)
    /\ pc = "return" =>
          (Distinct(Truncated(posts, cap)) /\ Len(Truncated(posts, cap)) <= cap)
    /\ response.kind = "posts" =>
          (Distinct(response.posts) /\ Len(response.posts) <= HardLimit)

\* a result of max_posts posts, two of which had been collected before the
\* pass that rendered them again together with the others
C5_Witness ==
    /\ pc = "return"
    /\ cap = 5
    /\ posts = <<Post(2), Post(1), Post(3), Post(4), Post(5)>>

\* C6: the posts are the first max_posts distinct identifiers in the order
\* the enumeration passes came upon them; with ScenarioPosts distinct posts in
\* one pass and max_posts below that, the first max_posts of them.
C6_FirstSeenOrder ==
    pc \in {"enum", "scroll", "return"} =>
        Truncated(posts, cap) =
            [k \in 1..Min(Len(firstSeen), cap) |-> Post(firstSeen[k])]

\* seven posts on the page, max_posts = 5: the first five, in page order
C6_Witness ==
    /\ pc = "return"
    /\ cap = 5
    /\ firstSeen = ScenarioCards
    /\ Truncated(posts, cap) = <<Post(1), Post(2), Post(3), Post(4), Post(5)>>

Clamp(n, lo, hi) == IF n < lo THEN lo ELSE IF n > hi THEN hi ELSE n

\* C7: for an integer max_posts the cap handed to scrape_hashtag is
\* clamp(max_posts, 1, 25): 100 gives 25 and 0 gives 1.
C7_IntegerCapIsClamped ==
    (pc = "navigate" /\ data.t = "int") =>
        /\ cap = Clamp(data.v, 1, 25)
        /\ 1 <= cap /\ cap <= 25
        /\ data.v = 100 => cap = 25
        /\ data.v = 0 => cap = 1

\* max_posts = 100 has been clamped to 25
C7_Witness ==
    /\ pc = "navigate"
    /\ data = [t |-> "int", v |-> 100]
    /\ cap = 25

\* the max_posts values that are no integer: a number with a fraction, a
\* string holding a letter or a decimal point, a boolean, null, a list, an
\* object
NonInteger(d) ==
    \/ d.t = "float" /\ d.tenths % 10 # 0
    \/ d.t = "str" /\ \E i \in 1..Len(d.s) : d.s[i] \in {"a", "."}
    \/ d.t \in {"bool", "null", "list", "object"}

\* C8: a max_posts that is no integer gives the cap 5.
C8_NonIntegerDefaultsTo5 ==
    (pc = "navigate" /\ NonInteger(data)) => cap = DefaultMaxPosts

\* C9: when no container xpath matches, scrape_hashtag returns at once: the
\* request is answered 404 "no posts found" and dump_debug has been called
\* once in the request, with "no_posts", and has written that dump.
C9_NoPostsDumpsOnce ==
    [][(pc = "navigate" /\ pc' # "enum")
          => (/\ pc' = "idle"
              /\ response'.status = 404
              /\ response'.kind = "no posts found"
              /\ dumpCalls' = <<"no_posts">>
              /\ dumpFiles' = <<"no_posts">>)]_vars

\* a /scrape answered 404 after the one "no_posts" dump
C9_Witness ==
    /\ pc = "idle"
    /\ response.status = 404
    /\ response.kind = "no posts found"
    /\ dumpCalls = <<"no_posts">>

\* a pass has enumerated containers, each with an empty data-urn, and no post
\* has been extracted so far
ZeroSurvivors ==
    /\ pc = "scroll"
    /\ cards # <<>>
    /\ \A i \in 1..Len(cards) : cards[i] = NoUrn
    /\ posts = <<>>

\* C10: a harvest that finds containers of which none survives extraction
\* ends with 404 "no posts found": after a pass that extracted nothing from
\* the containers it found, either a later pass extracts a post or the request
\* is answered 404.
C10_ZeroSurvivorsGive404 ==
    [](ZeroSurvivors => <>(posts # <<>> \/ response.kind = "no posts found"))

FixedOutcomes ==
    {"posts", "no posts found", "browser init failed", "success", "failed"}

\* C11: a /comment request in which a wait.until timed out is answered
\* 500 "failed" after exactly one dump, tagged "comment_failed"; it is answered
\* 200 "success" only from the state after the click on the submit button,
\* reached through the three waits with every character of the comment sent.
C11_TimeoutFailsSuccessNeedsAll ==
    [][(InComment /\ pc' = "idle") =>
          \/ /\ response'.kind = "failed"
             /\ response'.status = 500
             /\ pc \in WaitStages
             /\ dumpCalls' = <<"comment_failed">>
             /\ dumpFiles' = <<"comment_failed">>
          \/ /\ response'.kind = "success"
             /\ response'.status = 200
             /\ pc = "clicked"
             /\ typed = commentData.text
             /\ dumpCalls' = <<>>
          \/ response'.kind = "exception"]_vars

\* the comment trigger never became clickable: 500 "failed" and one dump
C11_Witness ==
    /\ pc = "idle"
    /\ response.kind = "failed"
    /\ response.status = 500
    /\ dumpCalls = <<"comment_failed">>

\* C12: every answered request carries one of the fixed JSON outcomes.
C12_OnlyFixedOutcomes ==
    response.kind # "none" => response.kind \in FixedOutcomes

\* C13: at most one browser is ever created; once the driver exists no later
\* request launches another and the handle is never closed or replaced.
C13_OneBrowserEver ==
    [][/\ launches' <= 1
       /\ driver # NoDriver =>
             (driver' = driver /\ wait' = wait /\ launches' = launches)]_vars

\* a later request on a browser whose state detection had failed: no relaunch
C13_Witness ==
    /\ pc = "initdone"
    /\ nreq >= 2
    /\ authState \in FailedStates
    /\ driver = 1
    /\ launches = 1

\* C14: requests are served one at a time: at most one handler runs, and
\* while it is anywhere between its entry and its return no other request is
\* taken.
C14_OneHandlerAtATime ==
    /\ running <= 1
    /\ running = (IF pc = "idle" THEN 0 ELSE 1)
    /\ pc # "idle" => ~ENABLED (\E r \in {"scrape", "comment"} : Request(r))

\* a handler is in the harvest loop while further requests are still to come
C14_Witness ==
    /\ running = 1
    /\ pc = "enum"
    /\ nreq < MaxRequests

\* C15: the normalized hashtag starts with no '#' and no whitespace, ends with
\* no whitespace, and normalizing it again changes nothing.
C15_HashtagNormalized ==
    pc = "parse" =>
        LET n == hashtag.norm IN
        /\ n # <<>> => (Head(n) # "#" /\ ~IsSpace(Head(n)) /\ ~IsSpace(n[Len(n)]))
        /\ NormalizeHashtag([t |-> "str", s |-> n]) = n

\* C16: the harvest loop ends only with max_posts posts: it reaches its
\* return only when max_posts distinct identifiers have been enumerated, after
\* a pass that leaves fewer it always starts another pass, and once max_posts
\* distinct identifiers have been enumerated it does reach its return.
C16_ReturnsOnlyAtCap ==
    /\ [](pc = "return" => (Len(posts) = cap /\ Len(firstSeen) >= cap))
    /\ [][(pc = "scroll" /\ Len(firstSeen) < cap) => pc' = "enum"]_vars
    /\ (pc = "scroll" /\ Len(firstSeen) >= cap) ~> (pc = "return")

\* max_posts = 2 reached, one post per pass
C16_Witness ==
    /\ pc = "return"
    /\ cap = 2
    /\ posts = <<Post(1), Post(2)>>
    /\ firstSeen = <<1, 2>>

\* C17: the state detection decides in the order Authenticated, then
\* CheckpointChallenge, then LoginPageDetected, then UnknownState; with a
\* checkpoint and a login-page signal and no Authenticated one it gives
\* CheckpointChallenge; a launch attempt yields one terminal state.
C17_DetectionPriority ==
    (pc = "initdone" /\ signals.t = "detect") =>
        /\ signals.ok => authState = "Authenticated"
        /\ (~signals.ok /\ signals.cp) => authState = "CheckpointChallenge"
        /\ (~signals.ok /\ ~signals.cp /\ signals.lp) => authState = "LoginPageDetected"
        /\ (~signals.ok /\ ~signals.cp /\ ~signals.lp) => authState = "UnknownState"
        /\ ready = (authState = "Authenticated")
        /\ detections = 1
        /\ launches = 1

\* checkpoint and login-page signals together, no Authenticated signal
C17_Witness ==
    /\ pc = "initdone"
    /\ signals = [t |-> "detect", ok |-> FALSE, cp |-> TRUE, lp |-> TRUE]
    /\ authState = "CheckpointChallenge"

\* an initialize_browser call has just failed past the session id test
InitJustFailed == pc = "init" /\ pc' = "initdone" /\ attempts' # attempts /\ ~ready'

\* the tag that tells the cause of the failure
CauseTag ==
    IF signals'.t # "detect" THEN "init_failed"
    ELSE CASE authState' = "CheckpointChallenge" -> "checkpoint"
           [] authState' = "LoginPageDetected" -> "login_page"
           [] authState' = "UnknownState" -> "unknown_state"

C19_NoScrollOnceCapReached ==
    [][(pc = "scroll" /\ pc' # "scroll") => Len(posts) < cap]_vars

\* C20: scrape_hashtag returns either the empty list, straight after no
\* container xpath matched, or exactly max_posts posts, which is then the body
\* of the 200 answer.
C20_NeverPartial ==
    [][(InHarvest /\ pc' = "idle") =>
          \/ /\ pc = "navigate"
             /\ response'.status = 404
             /\ response'.posts = <<>>
          \/ /\ pc = "return"
             /\ response'.status = 200
             /\ response'.kind = "posts"
             /\ Len(response'.posts) = cap]_vars

\* a 200 answer with the five posts of max_posts = 5
C20_Witness ==
    /\ pc = "idle"
    /\ response.status = 200
    /\ response.kind = "posts"
    /\ Len(response.posts) = DefaultMaxPosts

=============================================================================
